---- MODULE Spec2Model ----
(***************************************************************************)
(* Model of c_src/gpio_port2.c: an Erlang port program that owns one GPIO  *)
(* pin of the sysfs GPIO interface.  The parent writes length-prefixed     *)
(* frames to the program's stdin; main() polls stdin and, while the pin is *)
(* in GPIO_INPUT_WITH_INTERRUPTS, the pin's value file.                    *)
(*                                                                         *)
(* The term library (erl_interface) and the kernel's sysfs files are not   *)
(* part of the program; they are modelled here as the environment:         *)
(*  - terms are encoded in a reduced external term format (magic 131,      *)
(*    small tuple 104, atom 100 + index into AtomTable, small integer 97,  *)
(*    reference 114, string 107 with a two-byte length);                   *)
(*  - every write to a sysfs control file and the open of the value file   *)
(*    may fail, chosen by the environment (the record env).                *)
(***************************************************************************)
EXTENDS Integers, Sequences, FiniteSets, TLC

\* ---------------------------------------------------------------- bounds
MaxSent == 3        \* frames the parent writes in one run
MaxInFlight == 2    \* writes of the parent between two reads of the program
MaxPartial == 2     \* largest read that delivers less than all available bytes
MaxEdges == 1       \* level changes of the pin made by the outside world

\* ------------------------------------------------------ program constants
BUF_SIZE == 1024
HDR == 2            \* sizeof(uint16_t)
STDIN_FILENO == 0
NOFD == 0 - 1

GPIO_CLOSED == "GPIO_CLOSED"
GPIO_OUTPUT == "GPIO_OUTPUT"
GPIO_INPUT == "GPIO_INPUT"
GPIO_INPUT_WITH_INTERRUPTS == "GPIO_INPUT_WITH_INTERRUPTS"

\* the GPIO lines the kernel lets a process export
Pins == {4, 17}

\* --------------------------------------------------------------- terms
\* An ETERM: ty is "atom", "int", "ref", "str", "tuple" or "null" (a NULL
\* pointer).  A string keeps its bytes in els.
AtomTable == <<"init", "cast", "call", "release", "write", "read", "set_int",
               "input", "output", "rising", "inout", "reset", "toggle">>

AtomIndex(a) == CHOOSE i \in 1..Len(AtomTable) : AtomTable[i] = a

NULL == [ty |-> "null", a |-> "", n |-> 0, els |-> <<>>]
AtomT(a) == [ty |-> "atom", a |-> a, n |-> 0, els |-> <<>>]
IntT(n) == [ty |-> "int", a |-> "", n |-> n, els |-> <<>>]
RefT(n) == [ty |-> "ref", a |-> "", n |-> n, els |-> <<>>]
TupleT(els) == [ty |-> "tuple", a |-> "", n |-> 0, els |-> els]
StrT(bytes) == [ty |-> "str", a |-> "", n |-> Len(bytes), els |-> bytes]

RECURSIVE EncodeTerm(_)
EncodeSeq(els) ==
    LET RECURSIVE Go(_)
        Go(i) == IF i > Len(els) THEN <<>> ELSE EncodeTerm(els[i]) \o Go(i + 1)
    IN Go(1)

EncodeTerm(t) ==
    CASE t.ty = "atom" -> <<100, AtomIndex(t.a)>>
      [] t.ty = "int" -> <<97, t.n>>
      [] t.ty = "ref" -> <<114, t.n>>
      [] t.ty = "str" -> <<107, t.n \div 256, t.n % 256>> \o t.els
      [] t.ty = "tuple" -> <<104, Len(t.els)>> \o EncodeSeq(t.els)

\* erl_encode: the version magic, then the term.
erl_encode(t) == <<131>> \o EncodeTerm(t)

\* erl_term_len
erl_term_len(t) == Len(erl_encode(t))

\* erlcmd_send with the length written low byte first
erlcmd_send_LittleEndian(response) ==
    LET len == erl_term_len(response)
    IN <<len % 256, len \div 256>> \o erl_encode(response)

\* erlcmd_send: the bytes written to stdout for a response, htons(len) and
\* then the encoded term.
erlcmd_send(response) ==
    LET len == erl_term_len(response)
    IN <<len \div 256, len % 256>> \o erl_encode(response)

\* The byte at 1-based position i of a byte array whose zero tail is elided.
BufAt(b, i) == IF i >= 1 /\ i <= Len(b) THEN b[i] ELSE 0

\* DecodeAt(b, p, depth): the term that starts at position p of b, as
\* [ok, t, next].  Tuples nest to depth 2, as the protocol's terms do.
RECURSIVE DecodeAt(_, _, _)
RECURSIVE DecodeEls(_, _, _, _)
DecodeEls(b, p, n, depth) ==
    IF n = 0 THEN [ok |-> TRUE, els |-> <<>>, next |-> p]
    ELSE LET h == DecodeAt(b, p, depth)
         IN IF ~h.ok THEN [ok |-> FALSE, els |-> <<>>, next |-> p]
            ELSE LET r == DecodeEls(b, h.next, n - 1, depth)
                 IN [ok |-> r.ok, els |-> <<h.t>> \o r.els, next |-> r.next]

DecodeAt(b, p, depth) ==
    LET tag == BufAt(b, p)
        arg == BufAt(b, p + 1)
        bad == [ok |-> FALSE, t |-> NULL, next |-> p]
    IN CASE tag = 100 ->
              IF arg \in 1..Len(AtomTable)
              THEN [ok |-> TRUE, t |-> AtomT(AtomTable[arg]), next |-> p + 2]
              ELSE bad
         [] tag = 97 -> [ok |-> TRUE, t |-> IntT(arg), next |-> p + 2]
         [] tag = 114 -> [ok |-> TRUE, t |-> RefT(arg), next |-> p + 2]
         [] tag = 107 ->
              LET n == arg * 256 + BufAt(b, p + 2)
              IN [ok |-> TRUE, t |-> StrT([i \in 1..n |-> BufAt(b, p + 2 + i)]),
                  next |-> p + 3 + n]
         [] tag = 104 ->
              IF depth >= 2 \/ arg > 3 THEN bad
              ELSE LET r == DecodeEls(b, p + 2, arg, depth + 1)
                   IN IF r.ok THEN [ok |-> TRUE, t |-> TupleT(r.els), next |-> r.next]
                      ELSE bad
         [] OTHER -> bad

\* erl_decode(handler->buffer + sizeof(uint16_t)): NULL unless the bytes from
\* position p on are the version magic followed by a term.
erl_decode(b, p) ==
    IF BufAt(b, p) # 131 THEN NULL
    ELSE LET r == DecodeAt(b, p + 1, 0) IN IF r.ok THEN r.t ELSE NULL

\* erl_element(i, t): NULL when t is no tuple or has fewer than i elements.
erl_element(i, t) ==
    IF t.ty = "tuple" /\ i <= Len(t.els) THEN t.els[i] ELSE NULL

\* ------------------------------------------------------------- replies
Ok == [kind |-> "ok", reason |-> "", value |-> 0]
Error(r) == [kind |-> "error", reason |-> r, value |-> 0]
Value(v) == [kind |-> "value", reason |-> "", value |-> v]
\* what erl_format("{port_reply,~w,~w}", refp, 0) leaves in the place of the
\* result when it produces a term at all
Undefined == [kind |-> "undefined", reason |-> "", value |-> 0]

Plain(res) == [tag |-> "reply", ref |-> 0, res |-> res]
PortReply(ref, res) == [tag |-> "port_reply", ref |-> ref, res |-> res]
Interrupt(edge) ==
    [tag |-> "gpio_interrupt", ref |-> 0,
     res |-> [kind |-> edge, reason |-> "", value |-> 0]]

\* ------------------------------------------------------- sysfs, as files
\* fs.exported: the pins whose per-pin files exist; fs.dir, fs.level: the
\* direction and the level of the pin; fs.edge: interrupts are configured;
\* fs.open: the open descriptors of value files; fs.irq: a level change is
\* pending on the value file (POLLPRI).
IO(op, ok) == [op |-> op, ok |-> ok]

\* open(2) returns the lowest descriptor not in use; 0, 1, 2 are the
\* standard streams.
LowestFreeFd(fs) ==
    CHOOSE f \in 3..(3 + Cardinality(fs.open)) :
        /\ f \notin {o.fd : o \in fs.open}
        /\ \A g \in 3..(f - 1) : g \in {o.fd : o \in fs.open}

IsOpenFd(fs, fd) == fd \in {o.fd : o \in fs.open}

\* gpio_init
gpio_init == [state |-> GPIO_CLOSED, fd |-> NOFD, pin_number |-> NOFD]

\* gpio_release that forgets to reset fd and pin_number.
gpio_release_KeepFields(pin, fs) ==
    IF pin.state = GPIO_CLOSED
    THEN [pin |-> pin, fs |-> fs, io |-> <<>>, ret |-> 1]
    ELSE [pin |-> [pin EXCEPT !.state = GPIO_CLOSED],
          fs |-> [fs EXCEPT
                    !.open = {o \in fs.open : o.fd # pin.fd},
                    !.exported = fs.exported \ {pin.pin_number}],
          io |-> <<IO("close", IsOpenFd(fs, pin.fd)),
                   IO("unexport", pin.pin_number \in fs.exported)>>,
          ret |-> 1]

\* gpio_release: [pin, fs, io, ret]
gpio_release(pin, fs) ==
    IF pin.state = GPIO_CLOSED
    THEN [pin |-> pin, fs |-> fs, io |-> <<>>, ret |-> 1]
    ELSE LET unexp == pin.pin_number \in fs.exported
             fs1 == [fs EXCEPT
                       !.open = {o \in fs.open : o.fd # pin.fd},
                       !.exported = fs.exported \ {pin.pin_number},
                       !.edge = IF unexp THEN FALSE ELSE fs.edge,
                       !.irq = IF unexp THEN FALSE ELSE fs.irq]
         IN [pin |-> [state |-> GPIO_CLOSED, fd |-> NOFD, pin_number |-> NOFD],
             fs |-> fs1,
             io |-> <<IO("close", IsOpenFd(fs, pin.fd)), IO("unexport", unexp)>>,
             ret |-> 1]

\* gpio_open: [pin, fs, io, ret].  env.export, env.direction and env.open say
\* whether the export write, the direction write and the open of the value
\* file succeed.
gpio_open(pin, fs, pin_number, dir, env) ==
    LET r0 == IF pin.state # GPIO_CLOSED THEN gpio_release(pin, fs)
              ELSE [pin |-> pin, fs |-> fs, io |-> <<>>, ret |-> 1]
        exists == pin_number \in r0.fs.exported
        exportOk == env.export /\ pin_number \in Pins
        io1 == IF exists THEN r0.io ELSE Append(r0.io, IO("export", exportOk))
        fs1 == IF exists THEN r0.fs
               ELSE [r0.fs EXCEPT !.exported = r0.fs.exported \cup {pin_number}]
    IN IF ~exists /\ ~exportOk
       THEN [pin |-> r0.pin, fs |-> r0.fs, io |-> io1, ret |-> 0 - 1]
       ELSE IF dir \notin {"input", "output"}
       THEN [pin |-> r0.pin, fs |-> fs1, io |-> io1, ret |-> 1]
       ELSE LET st == IF dir = "input" THEN GPIO_INPUT ELSE GPIO_OUTPUT
                pin1 == [r0.pin EXCEPT !.state = st]
                io2 == Append(io1, IO("direction", env.direction))
            IN IF ~env.direction
               THEN [pin |-> pin1, fs |-> fs1, io |-> io2, ret |-> 1]
               ELSE LET fs2 == [fs1 EXCEPT !.dir = IF dir = "input" THEN "in" ELSE "out"]
                        fd == IF env.open THEN LowestFreeFd(fs2) ELSE NOFD
                        fs3 == IF env.open
                               THEN [fs2 EXCEPT !.open = fs2.open \cup
                                         {[fd |-> fd, pin |-> pin_number]}]
                               ELSE fs2
                    IN [pin |-> [pin1 EXCEPT !.pin_number = pin_number, !.fd = fd],
                        fs |-> fs3,
                        io |-> Append(io2, IO("open_value", env.open)),
                        ret |-> 1]

\* gpio_write that reports success without changing the level of the line.
gpio_write_NoLevel(pin, fs, val) ==
    IF pin.state # GPIO_OUTPUT
    THEN [pin |-> pin, fs |-> fs, io |-> <<>>, ret |-> 0 - 1, fatal |-> ""]
    ELSE [pin |-> pin, fs |-> fs, io |-> <<IO("pwrite", TRUE)>>, ret |-> 1,
          fatal |-> ""]

\* gpio_write: [pin, fs, io, ret, fatal].  pwrite on a descriptor that is not
\* open fails, and err(EXIT_FAILURE, "pwrite") ends the process.
gpio_write(pin, fs, val) ==
    IF pin.state # GPIO_OUTPUT
    THEN [pin |-> pin, fs |-> fs, io |-> <<>>, ret |-> 0 - 1, fatal |-> ""]
    ELSE IF ~IsOpenFd(fs, pin.fd)
    THEN [pin |-> pin, fs |-> fs, io |-> <<IO("pwrite", FALSE)>>, ret |-> 0,
          fatal |-> "pwrite"]
    ELSE [pin |-> pin,
          fs |-> [fs EXCEPT !.level = IF val # 0 THEN 1 ELSE 0],
          io |-> <<IO("pwrite", TRUE)>>, ret |-> 1, fatal |-> ""]

\* gpio_read: [pin, fs, io, ret, fatal].  Reading the value file clears the
\* pending level change.
gpio_read(pin, fs) ==
    IF pin.state = GPIO_CLOSED
    THEN [pin |-> pin, fs |-> fs, io |-> <<>>, ret |-> 0 - 1, fatal |-> ""]
    ELSE IF ~IsOpenFd(fs, pin.fd)
    THEN [pin |-> pin, fs |-> fs, io |-> <<IO("pread", FALSE)>>, ret |-> 0,
          fatal |-> "pread"]
    ELSE [pin |-> pin, fs |-> [fs EXCEPT !.irq = FALSE],
          io |-> <<IO("pread", TRUE)>>,
          ret |-> IF fs.level = 1 THEN 1 ELSE 0, fatal |-> ""]

\* gpio_set_int: [pin, fs, io, ret].  The edge file is the one of
\* pin->pin_number; it exists only while that pin is exported.
gpio_set_int(pin, fs, mode, env) ==
    LET ok == pin.pin_number \in fs.exported /\ env.edge
                 /\ mode \in {"rising", "falling", "both"}
    IN IF ~ok
       THEN [pin |-> pin, fs |-> fs, io |-> <<IO("edge", FALSE)>>, ret |-> 0 - 1]
       ELSE [pin |-> [pin EXCEPT !.state = GPIO_INPUT_WITH_INTERRUPTS],
             fs |-> [fs EXCEPT !.edge = TRUE],
             io |-> <<IO("edge", TRUE)>>, ret |-> 1]

\* ----------------------------------------------------------- dispatcher
\* The result of one erlcmd_dispatch: ret is the number of bytes processed,
\* replies the frames written by erlcmd_send, io the file accesses made,
\* fatal the diagnostic of errx/err ("" while the process lives) and cmd the
\* decoded term (NULL when none was decoded).
Res(ret, pin, fs, replies, io, fatal, cmd) ==
    [ret |-> ret, pin |-> pin, fs |-> fs, replies |-> replies, io |-> io,
     fatal |-> fatal, cmd |-> cmd]

\* ntohs of the first two bytes of handler->buffer
HeaderLen(buffer) == BufAt(buffer, 1) * 256 + BufAt(buffer, 2)

\* the check with the two header bytes left out of the sum
TooLong_NoHeader(msglen) == msglen > BUF_SIZE

\* msglen + sizeof(uint16_t) > sizeof(handler->buffer)
TooLong(msglen) == msglen + HDR > BUF_SIZE

\* msglen + sizeof(uint16_t) < handler->index
Incomplete(msglen, index) == msglen + HDR < index

\* the truth value of an int in a C condition
Truthy(ret) == ret # 0

\* ERL_ATOM_PTR of a term that is no atom reads another member of the term's
\* union as a pointer; strcmp on it ends the process with a signal.
IsAtom(t) == t.ty = "atom"

\* the "init" branch
DispatchInit(emsg, len, pin, fs, env) ==
    LET arg1p == erl_element(2, emsg)
        arg2p == erl_element(3, emsg)
    IN IF arg1p = NULL \/ arg2p = NULL
       THEN Res(0, pin, fs, <<>>, <<>>, "init: arg1p or arg2p was NULL", emsg)
       ELSE IF ~IsAtom(arg2p)
       THEN Res(0, pin, fs, <<>>, <<>>, "SIGSEGV", emsg)
       ELSE LET r == gpio_open(pin, fs, arg1p.n, arg2p.a, env)
                resp == IF Truthy(r.ret) THEN Ok ELSE Error("gpio_init_fail")
            IN Res(len, r.pin, r.fs, <<Plain(resp)>>, r.io, "", emsg)

\* a "cast" branch that takes every command for release.
DispatchCast_AnyRelease(emsg, len, pin, fs) ==
    LET r == gpio_release(pin, fs)
    IN Res(len, r.pin, r.fs, <<>>, r.io, "", emsg)

\* the "cast" branch
DispatchCast(emsg, len, pin, fs) ==
    LET arg1p == erl_element(2, emsg)
    IN IF arg1p = NULL
       THEN Res(0, pin, fs, <<>>, <<>>, "cast: arg1p was NULL", emsg)
       ELSE IF ~IsAtom(arg1p)
       THEN Res(0, pin, fs, <<>>, <<>>, "SIGSEGV", emsg)
       ELSE IF arg1p.a = "release"
       THEN LET r == gpio_release(pin, fs)
            IN Res(len, r.pin, r.fs, <<>>, r.io, "", emsg)
       ELSE Res(0, pin, fs, <<>>, <<>>, "cast: bad command", emsg)

\* the "call" branch.  For a function name that is none of write, read and
\* set_int, resp stays 0 and erl_format("{port_reply,~w,~w}", refp, 0) is
\* undefined: ub = "exit" is the build in which the process dies on it
\* (erl_format returns NULL and erl_encode fails, or a signal), ub = "reply"
\* the build in which a frame with an undefined result is written.
DispatchCall(emsg, len, pin, fs, env, ub) ==
    LET refp == erl_element(2, emsg)
        tuplep == erl_element(3, emsg)
        fnp == erl_element(1, tuplep)
        arg1p == erl_element(2, tuplep)
    IN IF refp = NULL \/ tuplep = NULL
       THEN Res(0, pin, fs, <<>>, <<>>, "call: refp or tuplep was NULL", emsg)
       ELSE IF fnp = NULL
       THEN Res(0, pin, fs, <<>>, <<>>, "tuplep: fnp was NULL", emsg)
       ELSE IF ~IsAtom(fnp)
       THEN Res(0, pin, fs, <<>>, <<>>, "SIGSEGV", emsg)
       ELSE IF fnp.a = "write"
       THEN IF arg1p = NULL
            THEN Res(0, pin, fs, <<>>, <<>>, "write: arg1p was NULL", emsg)
            ELSE LET r == gpio_write(pin, fs, arg1p.n)
                     resp == IF Truthy(r.ret) THEN Ok ELSE Error("gpio_write_failed")
                 IN IF r.fatal # ""
                    THEN Res(0, r.pin, r.fs, <<>>, r.io, r.fatal, emsg)
                    ELSE Res(len, r.pin, r.fs, <<PortReply(refp.n, resp)>>, r.io, "", emsg)
       ELSE IF fnp.a = "read"
       THEN LET r == gpio_read(pin, fs)
                resp == IF r.ret # 0 - 1 THEN Value(r.ret) ELSE Error("gpio_read_failed")
            IN IF r.fatal # ""
               THEN Res(0, r.pin, r.fs, <<>>, r.io, r.fatal, emsg)
               ELSE Res(len, r.pin, r.fs, <<PortReply(refp.n, resp)>>, r.io, "", emsg)
       ELSE IF fnp.a = "set_int"
       THEN IF ~IsAtom(arg1p)
            THEN Res(0, pin, fs, <<>>, <<>>, "SIGSEGV", emsg)
            ELSE LET r == gpio_set_int(pin, fs, arg1p.a, env)
                     resp == IF Truthy(r.ret) THEN Ok ELSE Error("gpio_set_int_failed")
                 IN Res(len, r.pin, r.fs, <<PortReply(refp.n, resp)>>, r.io, "", emsg)
       ELSE IF ub = "exit"
       THEN Res(0, pin, fs, <<>>, <<>>, "erl_encode", emsg)
       ELSE Res(len, pin, fs, <<PortReply(refp.n, Undefined)>>, <<>>, "", emsg)

\* erlcmd_dispatch
erlcmd_dispatch(buffer, index, pin, fs, env, ub) ==
    IF index < HDR THEN Res(0, pin, fs, <<>>, <<>>, "", NULL)
    ELSE LET msglen == HeaderLen(buffer)
             len == msglen + HDR
             emsg == erl_decode(buffer, HDR + 1)
             msg_type == erl_element(1, emsg)
         IN IF TooLong(msglen)
            THEN Res(0, pin, fs, <<>>, <<>>, "Message too long", NULL)
            ELSE IF Incomplete(msglen, index)
            THEN Res(0, pin, fs, <<>>, <<>>, "", NULL)
            ELSE IF emsg = NULL
            THEN Res(0, pin, fs, <<>>, <<>>, "erl_decode", NULL)
            ELSE IF msg_type = NULL
            THEN Res(0, pin, fs, <<>>, <<>>, "erl_element(msg_type)", emsg)
            ELSE IF ~IsAtom(msg_type)
            THEN Res(0, pin, fs, <<>>, <<>>, "SIGSEGV", emsg)
            ELSE IF msg_type.a = "init" THEN DispatchInit(emsg, len, pin, fs, env)
            ELSE IF msg_type.a = "cast" THEN DispatchCast(emsg, len, pin, fs)
            ELSE IF msg_type.a = "call" THEN DispatchCall(emsg, len, pin, fs, env, ub)
            ELSE Res(0, pin, fs, <<>>, <<>>, "unexpected element", emsg)

\* ------------------------------------------------------------ the state
VARIABLES
    pin,       \* struct gpio pin of main
    buffer,    \* handler.buffer, without its tail of zero bytes
    index,     \* handler.index
    fs,        \* the sysfs GPIO files and the descriptors open on them
    pipe,      \* bytes written by the parent and not yet read from stdin
    closed,    \* the parent has closed its end of stdin
    nsent,     \* frames written by the parent
    out,       \* the terms written to stdout by erlcmd_send since main last
               \* called poll, in order
    inflight,  \* writes of the parent since the program last read stdin
    status,    \* "running", "exit_success" or "exit_failure"
    diag,      \* the diagnostic of the errx/err that ended the process
    pc,        \* position of main: "top", "poll", "process", "dispatch", "gpio"
    fdset,     \* the descriptors of the first nfds entries passed to poll
    revents,   \* what poll reported: <<stdin readable, value file POLLPRI>>
    edges,     \* level changes made so far
    last,      \* record of the latest call of erlcmd_dispatch
    proc       \* record of the latest call of erlcmd_process

vars == <<pin, buffer, index, fs, pipe, closed, nsent, out, inflight, status,
          diag, pc, fdset, revents, edges, last, proc>>

\* ------------------------------------------------------------ the parent
\* The port driver of the parent prefixes the encoded term with its length,
\* big-endian, in two bytes.
Frame(t) ==
    LET len == erl_term_len(t)
    IN <<len \div 256, len % 256>> \o erl_encode(t)

\* The terms a parent sends; ref is the reference of a call.
ParentTerms(ref) ==
    { TupleT(<<AtomT("init"), IntT(4), AtomT(d)>>) : d \in {"input", "output", "inout"} }
    \cup { TupleT(<<AtomT("cast"), AtomT(c)>>) : c \in {"release", "reset"} }
    \cup { TupleT(<<AtomT("call"), RefT(ref), TupleT(<<AtomT("write"), IntT(b)>>)>>) :
             b \in {0, 1} }
    \cup { TupleT(<<AtomT("call"), RefT(ref), TupleT(<<AtomT(f)>>)>>) :
             f \in {"read", "toggle"} }
    \cup { TupleT(<<AtomT("call"), RefT(ref), TupleT(<<AtomT("set_int"), AtomT("rising")>>)>>) }

\* A byte stream: fewer kinds of frames, and headers alone that declare
\* 1023 and 1022 bytes.
StreamTerms(ref) ==
    { TupleT(<<AtomT("init"), IntT(4), AtomT("output")>>),
      TupleT(<<AtomT("cast"), AtomT("release")>>),
      TupleT(<<AtomT("call"), RefT(ref), TupleT(<<AtomT("read")>>)>>) }

RawHeaders == { <<3, 255>>, <<3, 254>> }

\* The sizes a read of n available bytes may return.
ReadSizes(n) == { k \in 1..n : k <= MaxPartial \/ k = n }

Min(a, b) == IF a < b THEN a ELSE b
Max(a, b) == IF a > b THEN a ELSE b

\* -------------------------------------------------------------- Init
NoDispatch ==
    [valid |-> FALSE, index |-> 0, msglen |-> 0, pre |-> gpio_init,
     ret |-> 0, cmd |-> NULL, replies |-> <<>>, io |-> <<>>, fatal |-> ""]

NoProcess ==
    [valid |-> FALSE, index0 |-> 0, asked |-> 0, chunk |-> <<>>, cmds |-> <<>>]

Init ==
    /\ pin = gpio_init
    /\ buffer = <<>>
    /\ index = 0
    /\ fs = [exported |-> {}, dir |-> "in", level |-> 0, edge |-> FALSE,
             open |-> {}, irq |-> FALSE]
    /\ pipe = <<>>
    /\ closed = FALSE
    /\ nsent = 0
    /\ out = <<>>
    /\ inflight = 0
    /\ status = "running"
    /\ diag = ""
    /\ pc = "top"
    /\ fdset = <<STDIN_FILENO>>
    /\ revents = <<FALSE, FALSE>>
    /\ edges = 0
    /\ last = NoDispatch
    /\ proc = NoProcess

\* ------------------------------------------------------- the environment
\* The program is single-threaded and blocks only in poll: what the parent
\* and the pin do while it runs is seen by it at its next poll, so the
\* environment's steps are taken while the program is blocked there.
\* The parent writes one frame once the program has read the one before.
ParentSend ==
    /\ status = "running" /\ pc = "poll" /\ ~closed
    /\ nsent < MaxSent /\ pipe = <<>>
    /\ \E t \in ParentTerms(nsent + 1) : pipe' = Frame(t)
    /\ nsent' = nsent + 1
    /\ inflight' = inflight + 1
    /\ UNCHANGED <<pin, buffer, index, fs, closed, out, status, diag, pc, fdset,
                   revents, edges, last, proc>>

\* The parent writes without waiting for the program to read.
ParentSendStream ==
    /\ status = "running" /\ pc = "poll" /\ ~closed
    /\ nsent < MaxSent /\ inflight < MaxInFlight
    /\ \E bytes \in { Frame(t) : t \in StreamTerms(nsent + 1) } \cup RawHeaders :
          pipe' = pipe \o bytes
    /\ nsent' = nsent + 1
    /\ inflight' = inflight + 1
    /\ UNCHANGED <<pin, buffer, index, fs, closed, out, status, diag, pc, fdset,
                   revents, edges, last, proc>>

\* The parent closes its end; what it wrote before is read first.
ParentClose ==
    /\ status = "running" /\ pc = "poll" /\ ~closed /\ pipe = <<>>
    /\ closed' = TRUE
    /\ UNCHANGED <<pin, buffer, index, fs, pipe, nsent, out, inflight, status,
                   diag, pc, fdset, revents, edges, last, proc>>

\* The level of an exported input pin changes; with an edge configured the
\* value file becomes ready for POLLPRI.
PinChange ==
    /\ status = "running" /\ pc = "poll" /\ edges < MaxEdges
    /\ fs.exported # {} /\ fs.dir = "in"
    /\ fs' = [fs EXCEPT !.level = 1 - fs.level, !.irq = fs.irq \/ fs.edge]
    /\ edges' = edges + 1
    /\ UNCHANGED <<pin, buffer, index, pipe, closed, nsent, out, inflight, status,
                   diag, pc, fdset, revents, last, proc>>

\* ------------------------------------------------------------- main
\* the value file watched whenever the pin is open
PollSet_WheneverOpen(p) ==
    IF p.state # GPIO_CLOSED THEN <<STDIN_FILENO, p.fd>> ELSE <<STDIN_FILENO>>

\* fdset[0..nfds-1] as main fills it in at the top of each iteration
PollSet(p) ==
    IF p.state = GPIO_INPUT_WITH_INTERRUPTS THEN <<STDIN_FILENO, p.fd>>
    ELSE <<STDIN_FILENO>>

\* main: the top of the loop up to the call of poll
Setup ==
    /\ status = "running" /\ pc = "top"
    /\ fdset' = PollSet(pin)
    /\ revents' = <<FALSE, FALSE>>
    /\ out' = <<>>
    /\ pc' = "poll"
    /\ UNCHANGED <<pin, buffer, index, fs, pipe, closed, nsent, inflight, status,
                   diag, edges, last, proc>>

StdinReady == pipe # <<>> \/ closed
ValueReady == Len(fdset) = 2 /\ IsOpenFd(fs, fdset[2]) /\ fs.irq

\* poll returns
PollReturn ==
    /\ status = "running" /\ pc = "poll"
    /\ StdinReady \/ ValueReady
    /\ revents' = <<StdinReady, ValueReady>>
    /\ pc' = IF StdinReady THEN "process" ELSE "gpio"
    /\ UNCHANGED <<pin, buffer, index, fs, pipe, closed, nsent, out, inflight,
                   status, diag, fdset, edges, last, proc>>

\* where main goes on after erlcmd_process
AfterProcess == IF revents[2] THEN "gpio" ELSE "top"

\* read(STDIN_FILENO, handler->buffer, n): the bytes land at the start of
\* the buffer
ReadInto(buf, chunk) ==
    [i \in 1..Max(Len(buf), Len(chunk)) |->
        IF i <= Len(chunk) THEN chunk[i] ELSE buf[i]]

\* a read that asks for the size of the whole buffer
ReadCap_Whole(idx) == BUF_SIZE

\* sizeof(handler->buffer) - handler->index, the count passed to read
ReadCap(idx) == BUF_SIZE - idx

\* erlcmd_process, up to the loop: the read and handler->index += amount_read.
\* split: the read may return fewer bytes than are available.
ErlcmdReadAs(split) ==
    /\ status = "running" /\ pc = "process"
    /\ LET n == Min(Len(pipe), ReadCap(index))
       IN IF n = 0
          THEN /\ status' = "exit_success"
               /\ UNCHANGED <<buffer, index, pipe, pc, proc>>
          ELSE /\ \E k \in (IF split THEN ReadSizes(n) ELSE {n}) :
                    /\ buffer' = ReadInto(buffer, SubSeq(pipe, 1, k))
                    /\ index' = index + k
                    /\ pipe' = SubSeq(pipe, k + 1, Len(pipe))
                    /\ proc' = [valid |-> TRUE, index0 |-> index,
                                asked |-> ReadCap(index),
                                chunk |-> SubSeq(pipe, 1, k), cmds |-> <<>>]
               /\ pc' = "dispatch"
               /\ UNCHANGED status
    /\ inflight' = 0
    /\ UNCHANGED <<pin, fs, closed, nsent, out, diag, fdset, revents, edges, last>>

ErlcmdRead == ErlcmdReadAs(FALSE)

ErlcmdReadSplit == ErlcmdReadAs(TRUE)

\* memmove(handler->buffer, &handler->buffer[n], handler->index - n)
Memmove(buf, idx, n) ==
    [i \in 1..Len(buf) |-> IF i <= idx - n THEN buf[i + n] ELSE buf[i]]

\* What the environment decides during one dispatch: at most one of the
\* sysfs accesses fails, and ub is the outcome of the undefined erl_format.
AllOk == [export |-> TRUE, direction |-> TRUE, open |-> TRUE, edge |-> TRUE,
          ub |-> "exit"]
Envs == { AllOk, [AllOk EXCEPT !.ub = "reply"], [AllOk EXCEPT !.export = FALSE],
          [AllOk EXCEPT !.direction = FALSE], [AllOk EXCEPT !.open = FALSE],
          [AllOk EXCEPT !.edge = FALSE] }

\* erlcmd_process: one turn of the for (;;) loop
Dispatch ==
    /\ status = "running" /\ pc = "dispatch"
    /\ \E env \in Envs :
         LET r == erlcmd_dispatch(buffer, index, pin, fs, env, env.ub)
         IN /\ pin' = r.pin
            /\ fs' = r.fs
            /\ out' = out \o r.replies
            /\ last' = [valid |-> TRUE, index |-> index,
                        msglen |-> HeaderLen(buffer), pre |-> pin, ret |-> r.ret,
                        cmd |-> r.cmd, replies |-> r.replies, io |-> r.io,
                        fatal |-> r.fatal]
            /\ proc' = IF r.ret > 0 THEN [proc EXCEPT !.cmds = Append(@, r.cmd)]
                       ELSE proc
            /\ IF r.fatal # ""
               THEN /\ status' = "exit_failure"
                    /\ diag' = r.fatal
                    /\ UNCHANGED <<buffer, index, pc>>
               ELSE /\ UNCHANGED <<status, diag>>
                    /\ IF r.ret = 0
                       THEN /\ pc' = AfterProcess
                            /\ UNCHANGED <<buffer, index>>
                       ELSE IF index > r.ret
                       THEN /\ buffer' = Memmove(buffer, index, r.ret)
                            /\ index' = index - r.ret
                            /\ pc' = "dispatch"
                       ELSE /\ index' = 0
                            /\ pc' = AfterProcess
                            /\ UNCHANGED buffer
    /\ UNCHANGED <<pipe, closed, nsent, inflight, fdset, revents, edges>>

\* gpio_process, called by main when poll reported POLLPRI
GpioProcess ==
    /\ status = "running" /\ pc = "gpio"
    /\ LET r == gpio_read(pin, fs)
       IN /\ fs' = r.fs
          /\ IF r.fatal # ""
             THEN /\ status' = "exit_failure"
                  /\ diag' = r.fatal
                  /\ UNCHANGED <<out, pc>>
             ELSE /\ out' = Append(out, Interrupt(IF Truthy(r.ret) THEN "rising"
                                                  ELSE "falling"))
                  /\ pc' = "top"
                  /\ UNCHANGED <<status, diag>>
    /\ UNCHANGED <<pin, buffer, index, pipe, closed, nsent, inflight, fdset,
                   revents, edges, last, proc>>

Next ==
    \/ ParentSend
    \/ ParentClose
    \/ PinChange
    \/ Setup
    \/ PollReturn
    \/ ErlcmdRead
    \/ Dispatch
    \/ GpioProcess

Spec == Init /\ [][Next]_vars

\* The same program fed a byte stream that reads split and merge.  The
\* frames of StreamTerms never configure an interrupt, so poll never reports
\* the value file and gpio_process is not called.
NextStream ==
    \/ ParentSendStream
    \/ ParentClose
    \/ Setup
    \/ PollReturn
    \/ ErlcmdReadSplit
    \/ Dispatch

SpecStream == Init /\ [][NextStream]_vars

\* ------------------------------------------- a parent that changes pins
\* Opens of either pin, in every direction the parent may name, and release.
PinTerms ==
    { TupleT(<<AtomT("init"), IntT(p), AtomT(d)>>) :
        p \in Pins, d \in {"input", "output", "inout"} }
    \cup { TupleT(<<AtomT("cast"), AtomT("release")>>) }

ParentSendPins ==
    /\ status = "running" /\ pc = "poll" /\ ~closed
    /\ nsent < MaxSent /\ pipe = <<>>
    /\ \E t \in PinTerms : pipe' = Frame(t)
    /\ nsent' = nsent + 1
    /\ inflight' = inflight + 1
    /\ UNCHANGED <<pin, buffer, index, fs, closed, out, status, diag, pc, fdset,
                   revents, edges, last, proc>>

NextPins ==
    \/ ParentSendPins
    \/ ParentClose
    \/ Setup
    \/ PollReturn
    \/ ErlcmdRead
    \/ Dispatch

SpecPins == Init /\ [][NextPins]_vars

\* -------------------------------------------------- a parent that floods
\* A command padded with a string of n bytes: its encoding has n + 10 bytes.
Padded(n) ==
    TupleT(<<AtomT("cast"), AtomT("release"), StrT([i \in 1..n |-> i % 256])>>)

PadOverhead == erl_term_len(Padded(0))

\* What a parent that never waits writes: a frame of 512 bytes, and the
\* first 256 bytes of it, the rest of the frame being still to come.
FloodFrame == Frame(Padded(BUF_SIZE \div 2 - HDR - PadOverhead))

FloodChunks == { FloodFrame, SubSeq(FloodFrame, 1, Len(FloodFrame) \div 2) }

\* The parent writes while the pipe has room.
ParentFlood ==
    /\ status = "running" /\ pc = "poll" /\ ~closed
    /\ inflight < MaxInFlight /\ Len(pipe) < BUF_SIZE
    /\ \E bytes \in FloodChunks : pipe' = pipe \o bytes
    /\ inflight' = inflight + 1
    /\ UNCHANGED <<pin, buffer, index, fs, closed, nsent, out, status, diag, pc,
                   fdset, revents, edges, last, proc>>

NextFlood ==
    \/ ParentFlood
    \/ ParentClose
    \/ Setup
    \/ PollReturn
    \/ ErlcmdRead
    \/ Dispatch

SpecFlood == Init /\ [][NextFlood]_vars

\* --------------------------------------------------- framing round trip
\* payloads of 10, 11, 265, 266, 1021 and 1022 bytes
PadLens == {0, 1, 255, 256, BUF_SIZE - HDR - PadOverhead - 1,
            BUF_SIZE - HDR - PadOverhead}

\* The terms framed: the commands, padded commands and terms that are no
\* commands.
CodecTerms ==
    ParentTerms(1) \cup ParentTerms(255)
    \cup { Padded(n) : n \in PadLens }
    \cup { AtomT(a) : a \in {"rising", "release"} }
    \cup { TupleT(<<AtomT("rising"), IntT(b)>>) : b \in {0, 1} }
    \cup { TupleT(<<IntT(4), AtomT("init")>>), StrT(<<1, 2, 3>>) }

\* The frame written by erlcmd_send for one term is what stdin holds when
\* the program starts.
InitCodec ==
    /\ pin = gpio_init
    /\ buffer = <<>>
    /\ index = 0
    /\ fs = [exported |-> {}, dir |-> "in", level |-> 0, edge |-> FALSE,
             open |-> {}, irq |-> FALSE]
    /\ \E t \in CodecTerms : pipe = erlcmd_send(t)
    /\ closed = FALSE
    /\ nsent = 1
    /\ out = <<>>
    /\ inflight = 1
    /\ status = "running"
    /\ diag = ""
    /\ pc = "top"
    /\ fdset = <<STDIN_FILENO>>
    /\ revents = <<FALSE, FALSE>>
    /\ edges = 0
    /\ last = NoDispatch
    /\ proc = NoProcess

NextCodec ==
    \/ Setup
    \/ PollReturn
    \/ ErlcmdRead
    \/ Dispatch

SpecCodec == InitCodec /\ [][NextCodec]_vars

\* ------------------------------------------------------------ claims
\* What the latest erlcmd_dispatch decoded.
LastTag == IF last.valid /\ last.cmd # NULL THEN erl_element(1, last.cmd).a ELSE ""
LastIsInit == LastTag = "init"
LastIsCall == LastTag = "call"
LastCallRef == erl_element(2, last.cmd).n
LastCallFn == erl_element(1, erl_element(3, last.cmd)).a
LastInitDir == erl_element(3, last.cmd).a
LastFailed(ops) ==
    \E i \in 1..Len(last.io) : last.io[i].op \in ops /\ ~last.io[i].ok

\* C1: a call of read, write or set_int dispatched while the pin is Closed is
\* answered by one port_reply with the call's reference and an error result,
\* and no GPIO file is accessed.
C1_ClosedCallRejected ==
    (LastIsCall /\ LastCallFn \in {"read", "write", "set_int"}
        /\ last.pre.state = GPIO_CLOSED)
    => /\ Len(last.replies) = 1
       /\ last.replies[1].tag = "port_reply"
       /\ last.replies[1].ref = LastCallRef
       /\ last.replies[1].res.kind = "error"
       /\ last.io = <<>>

\* C2: while fewer than the two header bytes plus the declared payload bytes
\* are buffered, a dispatch processes nothing: it returns 0, the index, the
\* pin, the GPIO files and stdout stay as they are and the process lives.
C2_IncompleteWaits ==
    [][ (pc = "dispatch"
            /\ (index < 2 \/ (HeaderLen(buffer) + 2 <= 1024
                                /\ index < HeaderLen(buffer) + 2)))
        => (last'.ret = 0 /\ index' = index /\ pin' = pin /\ fs' = fs
               /\ out' = out /\ status' = "running") ]_vars

\* The complete frames at the start of a byte sequence, decoded, and the
\* bytes that follow them.
RECURSIVE FramesIn(_)
FramesIn(bytes) ==
    IF Len(bytes) < 2 \/ Len(bytes) < HeaderLen(bytes) + 2
    THEN [cmds |-> <<>>, rest |-> bytes]
    ELSE LET n == HeaderLen(bytes) + 2
             r == FramesIn(SubSeq(bytes, n + 1, Len(bytes)))
         IN [cmds |-> <<erl_decode(bytes, 3)>> \o r.cmds, rest |-> r.rest]

\* The bytes pending in the buffer.
Pending(buf, idx) == [i \in 1..idx |-> BufAt(buf, i)]

\* C3: when one read into the empty buffer delivers two or more complete
\* frames, erlcmd_process has dispatched all of them in stream order when it
\* returns, and only the bytes of a trailing incomplete frame stay pending.
C3_AllFramesDispatched ==
    (status = "running" /\ pc \in {"top", "poll", "gpio"} /\ proc.valid
        /\ proc.index0 = 0 /\ Len(FramesIn(proc.chunk).cmds) >= 2)
    => /\ proc.cmds = FramesIn(proc.chunk).cmds
       /\ Pending(buffer, index) = FramesIn(proc.chunk).rest

\* C4: the bytes of a read are appended after the bytes already pending.
C4_ReadAppends ==
    [][ (pc = "process" /\ pc' = "dispatch")
        => Pending(buffer', index')
             = Pending(buffer, index) \o SubSeq(pipe, 1, Len(pipe) - Len(pipe')) ]_vars

\* C5: whenever main blocks in poll, the pin's value-file descriptor is in the
\* wait set if and only if the pin is in GPIO_INPUT_WITH_INTERRUPTS.
C5_WaitSet ==
    pc = "poll" =>
        IF pin.state = GPIO_INPUT_WITH_INTERRUPTS
        THEN fdset = <<STDIN_FILENO, pin.fd>>
        ELSE fdset = <<STDIN_FILENO>>

\* main blocks in poll without the value file, right after a command took
\* the pin out of GPIO_INPUT_WITH_INTERRUPTS
C5_Witness ==
    /\ pc = "poll" /\ last.valid /\ last.ret > 0
    /\ last.pre.state = GPIO_INPUT_WITH_INTERRUPTS
    /\ pin.state # GPIO_INPUT_WITH_INTERRUPTS
    /\ fdset = <<STDIN_FILENO>>

\* C6: a dispatch that finds a header declaring N with N + 2 > 1024 ends the
\* process with a failure status and the diagnostic "Message too long",
\* having decoded no command, written no reply, touched no GPIO file and left
\* the pin as it was; with N + 2 <= 1024 that diagnostic is never given.
C6_TooLongIsFatal ==
    (last.valid /\ last.index >= 2) =>
        IF last.msglen + 2 > 1024
        THEN /\ status = "exit_failure" /\ diag = "Message too long"
             /\ last.cmd = NULL /\ last.replies = <<>> /\ last.io = <<>>
             /\ out = <<>> /\ pin = last.pre
        ELSE diag # "Message too long"

\* the process ended on a header that declares 1023 bytes
C6_Witness ==
    /\ status = "exit_failure" /\ diag = "Message too long"
    /\ last.index = 2 /\ last.msglen = 1023

\* C7: an Init whose export write or direction write fails is answered
\* {error, gpio_init_fail}.
C7_InitFailureReported ==
    (LastIsInit /\ LastFailed({"export", "direction"}))
    => last.replies = <<Plain(Error("gpio_init_fail"))>>

\* C8: the pin holds an open value-file descriptor if and only if its state
\* is not Closed.
C8_FdValidIffOpen ==
    IF pin.state = GPIO_CLOSED THEN pin.fd = NOFD
    ELSE [fd |-> pin.fd, pin |-> pin.pin_number] \in fs.open

\* C9: every dispatched Call is answered by exactly one port_reply with the
\* call's reference (short of a fatal pread or pwrite), and a function name
\* other than write, read and set_int gets an error result.
C9_CallReplied ==
    (LastIsCall /\ last.fatal \notin {"pread", "pwrite"})
    => /\ Len(last.replies) = 1
       /\ last.replies[1].tag = "port_reply"
       /\ last.replies[1].ref = LastCallRef
       /\ last.replies[1].res.kind \in {"ok", "error", "value"}
       /\ (LastCallFn \notin {"write", "read", "set_int"}
              => last.replies[1].res.kind = "error")

\* C10: an Init whose direction is neither input nor output is answered with
\* an error, never with ok.
C10_BadDirectionRejected ==
    (LastIsInit /\ LastInitDir \notin {"input", "output"})
    => /\ Len(last.replies) = 1
       /\ last.replies[1].tag = "reply"
       /\ last.replies[1].res.kind = "error"

\* What a record of erlcmd_dispatch decoded.
TagOf(l) == IF l.valid /\ l.cmd # NULL THEN erl_element(1, l.cmd).a ELSE ""
CastFnOf(l) == erl_element(2, l.cmd).a
CallFnOf(l) == erl_element(1, erl_element(3, l.cmd)).a
CallRefOf(l) == erl_element(2, l.cmd).n
CallArgOf(l) == erl_element(2, erl_element(3, l.cmd))

\* C11: the state of the pin changes only by an open (to Output or Input,
\* after the release of what was open), by a release (to Closed) and by a
\* set_int issued in Input (to InputWithInterrupts); a set_int issued in
\* Output or Closed changes nothing.
C11_Transitions ==
    [][ pin'.state # pin.state =>
          \/ TagOf(last') = "init"
               /\ pin'.state \in {GPIO_CLOSED, GPIO_OUTPUT, GPIO_INPUT}
          \/ TagOf(last') = "cast" /\ pin'.state = GPIO_CLOSED
          \/ TagOf(last') = "call" /\ CallFnOf(last') = "set_int"
               /\ pin.state = GPIO_INPUT
               /\ pin'.state = GPIO_INPUT_WITH_INTERRUPTS ]_vars

\* C12: at most one value file is open and at most one pin is exported by
\* the process in every state, and an init dispatched while the pin is not
\* Closed closes the old value file and unexports the old pin before it
\* exports or opens anything.
C12_OnePinHeld ==
    /\ Cardinality(fs.open) <= 1
    /\ Cardinality(fs.exported) <= 1
    /\ (TagOf(last) = "init" /\ last.pre.state # GPIO_CLOSED)
       => /\ Len(last.io) >= 2
          /\ last.io[1].op = "close"
          /\ last.io[2] = IO("unexport", TRUE)
          /\ \A i \in 3..Len(last.io) :
                last.io[i].op \in {"export", "direction", "open_value"}

\* C13: every dispatched Init, Cast(release) and Call writes exactly one
\* reply frame before erlcmd_dispatch returns: ok or {error, Reason} for Init
\* and Cast, {port_reply, Ref, Result} with the call's reference for Call.
C13_OneReplyEach ==
    (last.valid /\ last.ret > 0 /\ TagOf(last) \in {"init", "cast", "call"})
    => /\ Len(last.replies) = 1
       /\ IF TagOf(last) = "call"
          THEN /\ last.replies[1].tag = "port_reply"
               /\ last.replies[1].ref = CallRefOf(last)
          ELSE /\ last.replies[1].tag = "reply"
               /\ last.replies[1].res.kind \in {"ok", "error"}

\* C16: a release leaves the pin Closed with fd = -1 and pin_number = -1,
\* whatever the state before; on a Closed pin it closes and unexports
\* nothing.
C16_ReleaseIdempotent ==
    (last.valid /\ TagOf(last) = "cast" /\ CastFnOf(last) = "release")
    => /\ last.fatal = "" /\ last.ret > 0
       /\ pin = [state |-> GPIO_CLOSED, fd |-> NOFD, pin_number |-> NOFD]
       /\ (last.pre.state = GPIO_CLOSED => last.io = <<>> /\ pin = last.pre)
       /\ (last.pre.state # GPIO_CLOSED =>
             /\ Len(last.io) = 2
             /\ last.io[1].op = "close" /\ last.io[2].op = "unexport"
             /\ ~IsOpenFd(fs, last.pre.fd))

\* a release dispatched on a pin that an earlier release had closed
C16_Witness ==
    /\ last.valid /\ TagOf(last) = "cast" /\ CastFnOf(last) = "release"
    /\ last.pre.state = GPIO_CLOSED /\ nsent = 3 /\ fs.exported = {}
    /\ pc = "top"

\* C18: a Cast whose tag is not release ends the process with a failure
\* status, with no reply written, no GPIO file touched and the pin as it
\* was.
C18_BadCastFatal ==
    (last.valid /\ TagOf(last) = "cast" /\ CastFnOf(last) # "release")
    => /\ status = "exit_failure" /\ diag = "cast: bad command"
       /\ last.replies = <<>> /\ out = <<>> /\ last.io = <<>>
       /\ pin = last.pre

\* the process ended on {cast, reset} while a pin was open
C18_Witness ==
    /\ status = "exit_failure" /\ diag = "cast: bad command"
    /\ last.pre.state # GPIO_CLOSED /\ IsOpenFd(fs, pin.fd)

\* C19: a notification frame is written only while the pin is in
\* InputWithInterrupts and after a read of the value file, and it says rising
\* if and only if the level read is 1.
C19_NotifyOnlyWithInterrupts ==
    [][ (pc = "gpio" /\ out' # out) =>
          /\ pin.state = GPIO_INPUT_WITH_INTERRUPTS
          /\ IsOpenFd(fs, pin.fd)
          /\ out' = Append(out, Interrupt(IF fs.level = 1 THEN "rising"
                                          ELSE "falling")) ]_vars

AllIoOk(l) == \A i \in 1..Len(l.io) : l.io[i].ok

\* C15: with every file operation succeeding, an init for output dispatched on
\* a Closed pin leaves the pin in Output and replies ok; a write of b in {0, 1}
\* dispatched in Output replies {port_reply, Ref, ok}; and the read dispatched
\* next after it replies {port_reply, Ref, b}.
C15_OutputRoundTrip ==
    /\ [](/\ ( /\ TagOf(last) = "init" /\ last.pre.state = GPIO_CLOSED
               /\ LastInitDir = "output" /\ AllIoOk(last) /\ last.fatal = "" )
             => /\ pin.state = GPIO_OUTPUT
                /\ last.replies = <<Plain(Ok)>>
          /\ ( /\ TagOf(last) = "call" /\ CallFnOf(last) = "write"
               /\ last.pre.state = GPIO_OUTPUT /\ AllIoOk(last)
               /\ last.fatal = "" )
             => last.replies = <<PortReply(CallRefOf(last), Ok)>>)
    /\ [][ ( /\ TagOf(last) = "call" /\ CallFnOf(last) = "write"
             /\ last.pre.state = GPIO_OUTPUT /\ AllIoOk(last)
             /\ last.fatal = ""
             /\ last' # last
             /\ TagOf(last') = "call" /\ CallFnOf(last') = "read"
             /\ AllIoOk(last') /\ last'.fatal = "" )
           => last'.replies = <<PortReply(CallRefOf(last'),
                                          Value(CallArgOf(last).n))>> ]_vars

\* init for output, write 1, read: the read replies 1
C15_Witness ==
    /\ TagOf(last) = "call" /\ CallFnOf(last) = "read"
    /\ last.pre.state = GPIO_OUTPUT /\ nsent = 3 /\ edges = 0
    /\ last.io = <<IO("pread", TRUE)>>
    /\ last.replies = <<PortReply(3, Value(1))>>

\* C17: the frame erlcmd_send writes for a term whose encoding has L <= 1022
\* bytes, read into the empty buffer, is decoded by erlcmd_dispatch to that
\* term, with msglen = L, and a dispatch that returns reports L + 2 bytes
\* processed and empties the buffer.
C17_RoundTrip ==
    \A t \in CodecTerms :
        (proc.valid /\ proc.index0 = 0 /\ proc.chunk = erlcmd_send(t)
            /\ last.valid)
        => /\ erl_term_len(t) <= BUF_SIZE - HDR
           /\ last.index = erl_term_len(t) + HDR
           /\ last.msglen = erl_term_len(t)
           /\ last.cmd = t
           /\ last.fatal \notin {"Message too long", "erl_decode"}
           /\ (last.fatal = "" =>
                 last.ret = erl_term_len(t) + HDR /\ index = 0)

\* a frame of 1024 bytes, payload of 1022, was dispatched and consumed whole
C17_Witness ==
    /\ last.valid /\ last.fatal = "" /\ last.ret = BUF_SIZE
    /\ last.cmd = Padded(BUF_SIZE - HDR - PadOverhead)
    /\ index = 0

\* C14: the process exits with status 0 only when a read of the command
\* stream found its end, that is with the parent's end closed and nothing
\* left to read; and a process that ended on a fatal condition ended with a
\* failure status.
C14_ExitZeroOnlyAtEof ==
    /\ status = "exit_success" => (closed /\ pipe = <<>>)
    /\ diag # "" => status = "exit_failure"

\* C20: 0 <= index <= BUF_SIZE in every state, and every read was asked for
\* at most BUF_SIZE - index bytes and delivered no more than it was asked for.
C20_IndexInBuffer ==
    /\ index \in 0..BUF_SIZE
    /\ Len(buffer) <= BUF_SIZE
    /\ proc.valid =>
         /\ proc.asked \in 0..(BUF_SIZE - proc.index0)
         /\ Len(proc.chunk) <= proc.asked
         /\ proc.index0 + Len(proc.chunk) <= BUF_SIZE

\* frames left undispatched have filled the buffer to its last byte: the read
\* before was asked for exactly the room that was left
C20_Witness ==
    /\ index = BUF_SIZE /\ proc.valid /\ proc.index0 > 0
    /\ proc.asked = BUF_SIZE - proc.index0
    /\ last.valid /\ last.ret = 0 /\ last.fatal = ""
    /\ status = "running"

\* a dispatch that consumed more bytes than were buffered
C20_ConsumedMoreThanBuffered ==
    /\ last.valid /\ last.fatal = "" /\ last.ret > last.index /\ index = 0

TypeOK ==
    /\ pin.state \in {GPIO_CLOSED, GPIO_OUTPUT, GPIO_INPUT, GPIO_INPUT_WITH_INTERRUPTS}
    /\ index \in 0..BUF_SIZE
    /\ status \in {"running", "exit_success", "exit_failure"}
    /\ pc \in {"top", "poll", "process", "dispatch", "gpio"}

====
